---------------------------- MODULE Spec2Model ----------------------------
(***************************************************************************)
(* Fixed-window per-IP rate limiter of finsor-backend                      *)
(* (middleware/rateLimiter.ts) as wired by server.ts: the middleware runs  *)
(* synchronously on Node's event loop for every inbound request and a      *)
(* setInterval timer calls cleanup().                                      *)
(***************************************************************************)
EXTENDS Integers, Sequences, FiniteSets, TLC

\* ------------------------------------------------------------------ bounds
MaxRequestsBound == 2      \* maxRequests ranges over 1..MaxRequestsBound
MaxWindow == 2             \* windowMs ranges over 1..MaxWindow
MaxTime == 4               \* Date.now() ranges over 0..MaxTime
BurstExtra == 5            \* requests launched beyond maxRequests in a burst
MaxRuns == 3               \* a question is at most MaxRuns runs of one character
MaxSymbolLen == 3          \* a symbol is at most MaxSymbolLen characters

\* ------------------------------------------------------- requests and keys
NoIp == "undefined"                       \* req.ip when the socket is gone
Ips == {"10.0.0.1", NoIp}     \* values of req.ip

\* const key = req.ip || 'unknown'
ClientKey(ip) == IF ip = NoIp THEN "unknown" ELSE ip

Keys == {ClientKey(ip) : ip \in Ips}

\* ------------------------------------------------------------------- state
VARIABLES
    store,        \* RateLimiter.store: key -> [count, resetTime]
    maxRequests,  \* RateLimiter.maxRequests
    windowMs,     \* RateLimiter.windowMs
    now,          \* the value Date.now() returns
    inflight,     \* requests accepted by the server, middleware not yet run
    last,         \* the last invocation: operation, input, state before, outcome
    winChecks,    \* per key: middleware invocations since its entry was created
    winNext,      \* per key: of those, how many called next()
    winDenied,    \* per key: of those, how many sent 429
    solo,         \* per key: the store of the run that handles only that
                  \* key's requests (same clock, same cleanup calls)
    checked,      \* the last validator invocation: input and outcome
    served,       \* the last request dispatched by the app: the request, the
                  \* store before it, the stages that ran, the responses sent
    allowedAt,    \* per key and instant: the checks that called next() then
    twin          \* the last invocation next to the run that handles the same
                  \* requests at the same instants and never calls cleanup()

\* What the rate limiter's own actions leave alone.
aux == <<checked, served, allowedAt, twin>>

vars == <<store, maxRequests, windowMs, now, inflight, last,
          winChecks, winNext, winDenied, solo, aux>>

\* private store: RateLimitStore = {}
EmptyStore == [k \in {} |-> [count |-> 0, resetTime |-> 0]]

\* this.store[key] = e
PutEntry(s, k, e) == [j \in (DOMAIN s) \cup {k} |-> IF j = k THEN e ELSE s[j]]

\* delete this.store[key]
DeleteEntry(s, k) == [j \in (DOMAIN s) \ {k} |-> s[j]]

\* res.status(429).json({success: false, error: 'Too many requests', timestamp})
TooManyRequests(t) ==
    [status |-> 429, success |-> FALSE, error |-> "Too many requests",
     timestamp |-> t]

\* { count: 1, resetTime: now + this.windowMs }
\* (faulty variants: resetTime without now; count starting at 0)
NewWindowNoNow(t, win) == [count |-> 1, resetTime |-> win]
NewWindowCountZero(t, win) == [count |-> 0, resetTime |-> t + win]
NewWindow(t, win) == [count |-> 1, resetTime |-> t + win]

\* this.store[key].count++
Increment(e) == [count |-> e.count + 1, resetTime |-> e.resetTime]

\* !this.store[key] || now > this.store[key].resetTime
\* (faulty variants: no expiry test; >= in place of >)
WindowOverNeverExpires(s, k, t) == k \notin DOMAIN s
WindowOverAtReset(s, k, t) == k \notin DOMAIN s \/ t >= s[k].resetTime
WindowOver(s, k, t) == k \notin DOMAIN s \/ t > s[k].resetTime

RECURSIVE TotalCount(_, _)
TotalCount(s, keys) ==
    IF keys = {} THEN 0
    ELSE LET k == CHOOSE x \in keys : TRUE
         IN  s[k].count + TotalCount(s, keys \ {k})

\* this.store[key].count >= this.maxRequests
\* (faulty variants: > in place of >=; the count summed over all keys)
SaturatedOffByOne(s, k, max) == s[k].count > max
SaturatedGlobal(s, k, max) == TotalCount(s, DOMAIN s) >= max
Saturated(s, k, max) == s[k].count >= max

\* RateLimiter.middleware: the store it leaves, the calls of next() and the
\* responses it sends, for a request with key k handled at time t.
\* (faulty variants: count++ ahead of the 429 test; a 429 that restarts the
\* window; no return after the 429)
middlewareCountsDenied(s, k, t, max, win) ==
    IF WindowOver(s, k, t)
    THEN [store     |-> PutEntry(s, k, NewWindow(t, win)),
          nextCalls |-> 1,
          responses |-> << >>]
    ELSE [store     |-> PutEntry(s, k, Increment(s[k])),
          nextCalls |-> IF Saturated(s, k, max) THEN 0 ELSE 1,
          responses |-> IF Saturated(s, k, max)
                        THEN << TooManyRequests(t) >> ELSE << >>]

middlewareDeniedExtends(s, k, t, max, win) ==
    IF WindowOver(s, k, t)
    THEN [store     |-> PutEntry(s, k, NewWindow(t, win)),
          nextCalls |-> 1,
          responses |-> << >>]
    ELSE IF Saturated(s, k, max)
    THEN [store     |-> PutEntry(s, k, [count     |-> s[k].count,
                                        resetTime |-> t + win]),
          nextCalls |-> 0,
          responses |-> << TooManyRequests(t) >>]
    ELSE [store     |-> PutEntry(s, k, Increment(s[k])),
          nextCalls |-> 1,
          responses |-> << >>]

middlewareNoReturn(s, k, t, max, win) ==
    IF WindowOver(s, k, t)
    THEN [store     |-> PutEntry(s, k, NewWindow(t, win)),
          nextCalls |-> 1,
          responses |-> << >>]
    ELSE [store     |-> PutEntry(s, k, Increment(s[k])),
          nextCalls |-> 1,
          responses |-> IF Saturated(s, k, max)
                        THEN << TooManyRequests(t) >> ELSE << >>]

middleware(s, k, t, max, win) ==
    IF WindowOver(s, k, t)
    THEN [store     |-> PutEntry(s, k, NewWindow(t, win)),
          nextCalls |-> 1,
          responses |-> << >>]
    ELSE IF Saturated(s, k, max)
    THEN [store     |-> s,
          nextCalls |-> 0,
          responses |-> << TooManyRequests(t) >>]
    ELSE [store     |-> PutEntry(s, k, Increment(s[k])),
          nextCalls |-> 1,
          responses |-> << >>]

\* now > this.store[key].resetTime
\* (faulty variants: >= in place of >; the comparison turned round)
ExpiredAtReset(s, k, t) == t >= s[k].resetTime
ExpiredInverted(s, k, t) == t < s[k].resetTime
Expired(s, k, t) == t > s[k].resetTime

\* RateLimiter.cleanup: Object.keys(this.store).forEach over a snapshot of
\* the keys, deleting each expired entry.
RECURSIVE cleanupKeys(_, _, _)
cleanupKeys(s, keys, t) ==
    IF keys = {} THEN s
    ELSE LET k == CHOOSE x \in keys : TRUE
         IN  cleanupKeys(IF Expired(s, k, t) THEN DeleteEntry(s, k) ELSE s,
                         keys \ {k}, t)

cleanup(s, t) == cleanupKeys(s, DOMAIN s, t)

\* ------------------------------------------------------------ validators
\* JSON values of a request body field and values of a path parameter.  A
\* string is a sequence of runs [ch, n]: the character ch repeated n times.
Undefined == [type |-> "undefined"]
JsNull == [type |-> "null"]
Bool(b) == [type |-> "boolean", val |-> b]
Num(n) == [type |-> "number", val |-> n]
Obj == [type |-> "object"]
Str(runs) == [type |-> "string", runs |-> runs]

\* question.length > 1000
MaxQuestionLength == 1000

\* String.prototype.length
RECURSIVE Length(_)
Length(runs) ==
    IF runs = << >> THEN 0 ELSE Head(runs).n + Length(Tail(runs))

\* The white space String.prototype.trim removes (the characters modelled).
WhiteSpace == {" ", "\t"}

RECURSIVE TrimStart(_)
TrimStart(runs) ==
    IF runs = << >> THEN << >>
    ELSE IF Head(runs).ch \in WhiteSpace THEN TrimStart(Tail(runs))
    ELSE runs

RECURSIVE TrimEnd(_)
TrimEnd(runs) ==
    IF runs = << >> THEN << >>
    ELSE IF runs[Len(runs)].ch \in WhiteSpace
         THEN TrimEnd(SubSeq(runs, 1, Len(runs) - 1))
    ELSE runs

\* String.prototype.trim
Trim(runs) == TrimEnd(TrimStart(runs))

\* typeof v
TypeOf(v) == IF v.type = "null" THEN "object" ELSE v.type

\* !v : undefined, null, false, 0 and "" are falsy.
Not(v) ==
    \/ v.type \in {"undefined", "null"}
    \/ v.type = "boolean" /\ v.val = FALSE
    \/ v.type = "number" /\ v.val = 0
    \/ v.type = "string" /\ Length(v.runs) = 0

\* const { question } = req.body ; const { symbol } = req.params
Field(obj, name) == IF name \in DOMAIN obj THEN obj[name] ELSE Undefined

\* res.status(400).json({success: false, error, timestamp: new Date()})
BadRequest(msg, t) ==
    [status |-> 400, success |-> FALSE, error |-> msg, timestamp |-> t]

Reject(msg, t) == [nextCalls |-> 0, responses |-> << BadRequest(msg, t) >>]
Pass == [nextCalls |-> 1, responses |-> << >>]

\* validateFinancialQuery(req, res, next)
validateFinancialQuery(body, t) ==
    LET question == Field(body, "question")
    IN  IF Not(question) THEN Reject("Question is required", t)
        ELSE IF TypeOf(question) # "string"
        THEN Reject("Question must be a string", t)
        ELSE IF Length(Trim(question.runs)) = 0
        THEN Reject("Question cannot be empty", t)
        ELSE IF Length(question.runs) > MaxQuestionLength
        THEN Reject("Question is too long (max 1000 characters)", t)
        ELSE Pass

\* The characters the classes A-Z, a-z and 0-9 contribute to the model.
Upper == {"A", "Z"}
Lower == {"a", "z"}
Digit == {"0", "9"}

\* [A-Za-z0-9-]
SymbolClass == Upper \cup Lower \cup Digit \cup {"-"}

\* /^[A-Za-z0-9-]+$/.test(symbol)
\* (faulty variant: the pattern without its anchors)
SymbolPatternUnanchored(runs) ==
    \E i \in 1..Len(runs) : runs[i].ch \in SymbolClass
SymbolPattern(runs) ==
    /\ Len(runs) >= 1
    /\ \A i \in 1..Len(runs) : runs[i].ch \in SymbolClass

\* validateSymbol(req, res, next): its outcome and req.params as it leaves them
validateSymbol(params, t) ==
    LET symbol == Field(params, "symbol")
    IN  IF Not(symbol)
        THEN [out |-> Reject("Symbol is required", t), params |-> params]
        ELSE IF ~SymbolPattern(symbol.runs)
        THEN [out |-> Reject("Invalid symbol format", t), params |-> params]
        ELSE [out |-> Pass, params |-> params]

\* ------------------------------------------------------- validator inputs
RunLengths == {1, MaxQuestionLength}

QuestionRuns == [ch : {" ", "\t", "x"}, n : RunLengths]

SeqsUpTo(S, m) == UNION {[1..k -> S] : k \in 0..m}

QuestionValues ==
    {JsNull, Bool(FALSE), Bool(TRUE), Num(0), Num(42), Obj}
        \cup {Str(r) : r \in SeqsUpTo(QuestionRuns, MaxRuns)}

Payload(name, v) == [f \in {name} |-> v]

EmptyObject == [f \in {} |-> Undefined]

\* req.body after express.json(): an object with or without the field
Bodies == {EmptyObject} \cup {Payload("question", v) : v \in QuestionValues}

SymbolRuns == [ch : {"A", "z", "9", "-", "/", " "}, n : {1}]

\* req.params
Params ==
    {EmptyObject} \cup
        {Payload("symbol", Str(r)) : r \in SeqsUpTo(SymbolRuns, MaxSymbolLen)}

NoValidation == [fn |-> "none", input |-> EmptyObject, out |-> Pass,
                 after |-> EmptyObject]

\* ---------------------------------------------------------------- the app
\* The routes of server.ts, in the order they are registered.
Routes ==
    << [method |-> "GET",  path |-> "/health",                    name |-> "health"],
       [method |-> "POST", path |-> "/api/analyze",               name |-> "analyze"],
       [method |-> "GET",  path |-> "/api/market/stock/:symbol",  name |-> "stock"],
       [method |-> "GET",  path |-> "/api/market/crypto/:symbol", name |-> "crypto"],
       [method |-> "GET",  path |-> "/api/news",                  name |-> "news"] >>

\* The first route whose method and path match; "*" when none does.
Match(method, path) ==
    LET hits == {i \in 1..Len(Routes) :
                    Routes[i].method = method /\ Routes[i].path = path}
    IN  IF hits = {} THEN "*"
        ELSE Routes[CHOOSE i \in hits : \A j \in hits : i <= j].name

\* res.json({status: 'healthy', ...})
Healthy(t) == [status |-> 200, success |-> TRUE, error |-> "", timestamp |-> t]

\* res.status(404).json({success: false, error: 'Endpoint not found', ...})
NotFound(t) ==
    [status |-> 404, success |-> FALSE, error |-> "Endpoint not found",
     timestamp |-> t]

\* res.status(500).json({success: false, error: 'Internal server error', ...})
InternalError(t) ==
    [status |-> 500, success |-> FALSE, error |-> "Internal server error",
     timestamp |-> t]

\* The stages that run once the rate limiter has called next(), and the
\* responses they send in this turn (a controller answers after its await).
route(req, t) ==
    LET name == Match(req.method, req.path)
        q    == validateFinancialQuery(req.body, t)
        y    == validateSymbol(req.params, t)
    IN  CASE name = "health" ->
               [trace |-> << "health" >>, responses |-> << Healthy(t) >>]
          [] name = "analyze" ->
               IF q.nextCalls = 0
               THEN [trace |-> << "validateFinancialQuery" >>,
                     responses |-> q.responses]
               ELSE [trace |-> << "validateFinancialQuery", "analyzeQuery" >>,
                     responses |-> << >>]
          [] name \in {"stock", "crypto"} ->
               IF y.out.nextCalls = 0
               THEN [trace |-> << "validateSymbol" >>,
                     responses |-> y.out.responses]
               ELSE [trace |-> << "validateSymbol", "getMarketData" >>,
                     responses |-> << >>]
          [] name = "news" ->
               [trace |-> << "getNews" >>, responses |-> << >>]
          [] OTHER ->
               [trace |-> << "notFound" >>, responses |-> << NotFound(t) >>]

\* The middleware stack of server.ts for one request, one synchronous turn:
\* the body parser, the rate limiter, then the routes; a body that does not
\* parse goes to the error handler.
\* (faulty variant: the routes run whatever the rate limiter answered)
dispatchIgnoresDenial(s, req, t, max, win) ==
    LET r == middleware(s, ClientKey(req.ip), t, max, win)
        h == route(req, t)
    IN  IF ~req.parses
        THEN [store |-> s, trace |-> << "express.json", "errorHandler" >>,
              responses |-> << InternalError(t) >>]
        ELSE [store |-> r.store,
              trace |-> << "express.json", "rateLimiter" >> \o h.trace,
              responses |-> r.responses \o h.responses]

dispatch(s, req, t, max, win) ==
    LET r == middleware(s, ClientKey(req.ip), t, max, win)
        h == route(req, t)
    IN  IF ~req.parses
        THEN [store |-> s, trace |-> << "express.json", "errorHandler" >>,
              responses |-> << InternalError(t) >>]
        ELSE IF r.nextCalls = 0
        THEN [store |-> r.store, trace |-> << "express.json", "rateLimiter" >>,
              responses |-> r.responses]
        ELSE [store |-> r.store,
              trace |-> << "express.json", "rateLimiter" >> \o h.trace,
              responses |-> r.responses \o h.responses]

\* ------------------------------------------------------------ app inputs
Spaces == Str(<< [ch |-> " ", n |-> 1] >>)
Short == Str(<< [ch |-> "x", n |-> 1] >>)
Long == Str(<< [ch |-> "x", n |-> MaxQuestionLength + 1] >>)

AppBodies ==
    {EmptyObject} \cup {Payload("question", v) : v \in {Num(42), Spaces, Short, Long}}

AppParams ==
    {Payload("symbol", Str(<< [ch |-> c, n |-> 1] >>)) : c \in {"A", "/"}}

Req(ip, method, path, body, params, parses) ==
    [ip |-> ip, method |-> method, path |-> path, body |-> body,
     params |-> params, parses |-> parses]

MarketPaths == {"/api/market/stock/:symbol", "/api/market/crypto/:symbol"}

\* Requests: a body only with POST /api/analyze, a symbol only with the
\* market paths (Express matches :symbol to a non-empty segment).
RequestsFrom(ip) ==
    {Req(ip, "GET", p, EmptyObject, EmptyObject, TRUE) :
        p \in {"/health", "/api/news", "/nowhere"}}
    \cup {Req(ip, "POST", "/health", EmptyObject, EmptyObject, TRUE)}
    \cup {Req(ip, "POST", "/api/analyze", b, EmptyObject, TRUE) : b \in AppBodies}
    \cup {Req(ip, "POST", "/api/analyze", EmptyObject, EmptyObject, FALSE)}
    \cup {Req(ip, "GET", p, EmptyObject, y, TRUE) :
            p \in MarketPaths, y \in AppParams}

\* One client sends every kind of request, the others GET /health.
Requests ==
    RequestsFrom("10.0.0.1")
        \cup {Req(ip, "GET", "/health", EmptyObject, EmptyObject, TRUE) : ip \in Ips}

NotServed == [req |-> Req(NoIp, "none", "none", EmptyObject, EmptyObject, TRUE),
              at |-> 0, pre |-> EmptyStore, trace |-> << >>,
              responses |-> << >>]

\* ------------------------------------------------------------ observation
Min(a, b) == IF a < b THEN a ELSE b

\* The counters saturate at cap; no claim speaks about a later position.
CounterCap == MaxRequestsBound + 2
BurstCap == MaxRequestsBound + BurstExtra + 1

Add(n, d, cap) == Min(n + d, cap)

NoCall == [op |-> "none", key |-> "none", at |-> 0, pre |-> EmptyStore,
           nextCalls |-> 0, responses |-> << >>, idx |-> 0, soloNext |-> 0]

ZeroCount == [k \in Keys |-> 0]

NoTwin == [op |-> "none", key |-> "none", at |-> 0, pre |-> EmptyStore,
           nextCalls |-> 0, plainPre |-> EmptyStore, plain |-> EmptyStore,
           plainNext |-> 0]

NoneAllowed == [k \in Keys |-> [t \in 0..MaxTime |-> 0]]

\* The request at time t falls in the window of k's stored entry.
InWindow(s, k, t) == k \in DOMAIN s /\ t <= s[k].resetTime

\* ------------------------------------------------------------------- Init
\* new RateLimiter(maxRequests, windowMs): both are positive integers.
Init ==
    /\ store = EmptyStore
    /\ maxRequests \in 1..MaxRequestsBound
    /\ windowMs \in 1..MaxWindow
    /\ now = 0
    /\ inflight = ZeroCount
    /\ last = NoCall
    /\ winChecks = ZeroCount
    /\ winNext = ZeroCount
    /\ winDenied = ZeroCount
    /\ solo = [k \in Keys |-> EmptyStore]
    /\ checked = NoValidation
    /\ served = NotServed
    /\ allowedAt = NoneAllowed
    /\ twin = NoTwin

\* ---------------------------------------------------------------- actions
\* The middleware runs on a request with key k; seen is the store it reads.
RunMiddleware(k, cap, seen) ==
    LET r     == middleware(seen, k, now, maxRequests, windowMs)
        alone == middleware(solo[k], k, now, maxRequests, windowMs)
        base(c) == IF InWindow(store, k, now) THEN c[k] ELSE 0
        denied == IF r.nextCalls = 0 THEN Len(r.responses) ELSE 0
    IN  /\ store' = r.store
        /\ solo' = [solo EXCEPT ![k] = alone.store]
        /\ winChecks' = [winChecks EXCEPT ![k] = Add(base(winChecks), 1, cap)]
        /\ winNext' = [winNext EXCEPT ![k] = Add(base(winNext), r.nextCalls, cap)]
        /\ winDenied' = [winDenied EXCEPT ![k] = Add(base(winDenied), denied, cap)]
        /\ last' = [op |-> "check", key |-> k, at |-> now, pre |-> store,
                    nextCalls |-> r.nextCalls, responses |-> r.responses,
                    idx |-> Add(base(winChecks), 1, cap),
                    soloNext |-> alone.nextCalls]
        /\ UNCHANGED <<maxRequests, windowMs, now>>

\* app.use(rateLimiter.middleware): a request arrives and the middleware
\* runs on it in the same turn of the event loop.
Request(ip) ==
    /\ RunMiddleware(ClientKey(ip), CounterCap, store)
    /\ UNCHANGED <<inflight, aux>>

\* setInterval(() => rateLimiter.cleanup(), 60000)
Cleanup ==
    /\ store' = cleanup(store, now)
    /\ solo' = [k \in Keys |-> cleanup(solo[k], now)]
    /\ last' = [op |-> "cleanup", key |-> "none", at |-> now, pre |-> store,
                nextCalls |-> 0, responses |-> << >>, idx |-> 0, soloNext |-> 0]
    /\ UNCHANGED <<maxRequests, windowMs, now, inflight,
                   winChecks, winNext, winDenied, aux>>

\* The clock advances.
Tick ==
    /\ now < MaxTime
    /\ now' = now + 1
    /\ UNCHANGED <<store, maxRequests, windowMs, inflight, last,
                   winChecks, winNext, winDenied, solo, aux>>

Next ==
    \/ \E ip \in Ips : Request(ip)
    \/ Cleanup
    \/ Tick

Spec == Init /\ [][Next]_vars

\* app.use(rateLimiter.middleware) on a request of a client that keeps
\* sending; of the observations only the call and its index are recorded.
PersistentRequest(ip) ==
    LET k    == ClientKey(ip)
        r    == middleware(store, k, now, maxRequests, windowMs)
        base == IF InWindow(store, k, now) THEN winChecks[k] ELSE 0
    IN  /\ store' = r.store
        /\ winChecks' = [winChecks EXCEPT ![k] = Add(base, 1, CounterCap)]
        /\ last' = [op |-> "check", key |-> k, at |-> now, pre |-> store,
                    nextCalls |-> r.nextCalls, responses |-> r.responses,
                    idx |-> Add(base, 1, CounterCap), soloNext |-> 0]
        /\ UNCHANGED <<maxRequests, windowMs, now, inflight,
                       winNext, winDenied, solo, aux>>

NextPersistent ==
    \/ \E ip \in Ips : PersistentRequest(ip)
    \/ Cleanup
    \/ Tick

\* The clock keeps advancing and every client keeps sending requests.
SpecPersistent ==
    /\ Init
    /\ [][NextPersistent]_vars
    /\ WF_vars(Tick)
    /\ \A ip \in Ips : WF_vars(PersistentRequest(ip))

\* Requests stop early enough for every window to end within the clock's
\* range.
RequestBeforeStop(ip) ==
    /\ now + windowMs < MaxTime
    /\ Request(ip)

NextReclaim ==
    \/ \E ip \in Ips : RequestBeforeStop(ip)
    \/ Cleanup
    \/ Tick

\* The clock keeps advancing and the cleanup timer keeps firing.
SpecReclaim ==
    /\ Init
    /\ [][NextReclaim]_vars
    /\ WF_vars(Tick)
    /\ WF_vars(Cleanup)

\* ------------------------------------------------- concurrent requests
\* Requests in flight plus requests handled in the current windows.
RECURSIVE Launched(_)
Launched(keys) ==
    IF keys = {} THEN 0
    ELSE LET k == CHOOSE x \in keys : TRUE
         IN  inflight[k] + (IF InWindow(store, k, now) THEN winChecks[k] ELSE 0)
             + Launched(keys \ {k})

\* The clients that send the burst; each other client has at most
\* OtherBudget requests in flight or handled in its current window.
BurstIps == {"10.0.0.1"}
OtherBudget == 1

\* A request is accepted; the middlewares ahead of the rate limiter
\* (helmet, cors, morgan, body parsers) have not handed it over yet.
Arrive(ip) ==
    LET k == ClientKey(ip)
    IN  /\ Launched(Keys) < maxRequests + BurstExtra
        /\ ip \in BurstIps \/ Launched({k}) < OtherBudget
        /\ inflight' = [inflight EXCEPT ![k] = @ + 1]
        /\ UNCHANGED <<store, maxRequests, windowMs, now, last,
                       winChecks, winNext, winDenied, solo, aux>>

\* (faulty variant: the read-modify-write is split, so a request reads the
\* store from before the previous request's write and writes its result now)
HandleStaleRead(k) ==
    /\ inflight[k] > 0
    /\ inflight' = [inflight EXCEPT ![k] = @ - 1]
    /\ RunMiddleware(k, BurstCap,
                     IF last.op = "check" /\ last.key = k THEN last.pre ELSE store)
    /\ UNCHANGED aux

\* The event loop runs the rate limiter on one of the requests in flight:
\* the whole of middleware() is one synchronous turn.
Handle(k) ==
    /\ inflight[k] > 0
    /\ inflight' = [inflight EXCEPT ![k] = @ - 1]
    /\ RunMiddleware(k, BurstCap, store)
    /\ UNCHANGED aux

NextBurst ==
    \/ \E ip \in Ips : Arrive(ip)
    \/ \E k \in Keys : Handle(k)
    \/ Cleanup
    \/ Tick

SpecBurst == Init /\ [][NextBurst]_vars

\* ------------------------------------------------- the server's limiter
\* constructor(maxRequests: number = 500, windowMs: number = 15 * 60 * 1000)
DefaultMaxRequests == 500
DefaultWindowMs == 15 * 60 * 1000

\* README, Security Features: "Rate limiting (100 requests per 15 minutes
\* per IP)"
DocumentedLimit == 100
DocumentedWindowMs == 15 * 60 * 1000

\* const rateLimiter = new RateLimiter()
InitServer ==
    /\ store = EmptyStore
    /\ maxRequests = DefaultMaxRequests
    /\ windowMs = DefaultWindowMs
    /\ now = 0
    /\ inflight = ZeroCount
    /\ last = NoCall
    /\ winChecks = ZeroCount
    /\ winNext = ZeroCount
    /\ winDenied = ZeroCount
    /\ solo = [k \in Keys |-> EmptyStore]
    /\ checked = NoValidation
    /\ served = NotServed
    /\ allowedAt = NoneAllowed
    /\ twin = NoTwin

\* Requests handled in the current windows, over all keys.
RECURSIVE HandledInWindow(_)
HandledInWindow(keys) ==
    IF keys = {} THEN 0
    ELSE LET k == CHOOSE x \in keys : TRUE
         IN  (IF InWindow(store, k, now) THEN winChecks[k] ELSE 0)
             + HandledInWindow(keys \ {k})

\* app.use(rateLimiter.middleware), followed up to the request after the
\* documented limit.
ServerRequest(ip) ==
    /\ HandledInWindow(Keys) < DocumentedLimit + 1
    /\ RunMiddleware(ClientKey(ip), DocumentedLimit + 1, store)
    /\ UNCHANGED <<inflight, aux>>

\* The clock advances by one window length, up to the end of the second
\* window.
ServerTick ==
    /\ now <= DefaultWindowMs
    /\ now' = now + DefaultWindowMs
    /\ UNCHANGED <<store, maxRequests, windowMs, inflight, last,
                   winChecks, winNext, winDenied, solo, aux>>

NextServer ==
    \/ \E ip \in Ips : ServerRequest(ip)
    \/ Cleanup
    \/ ServerTick

SpecServer == InitServer /\ [][NextServer]_vars

\* ------------------------------------------------------------ the app
\* One request goes through the middleware stack in one turn of the event
\* loop.  (The limiter's observation variables are not kept here.)
Dispatch(req) ==
    LET d == dispatch(store, req, now, maxRequests, windowMs)
    IN  /\ store' = d.store
        /\ served' = [req |-> req, at |-> now, pre |-> store,
                      trace |-> d.trace, responses |-> d.responses]
        /\ UNCHANGED <<maxRequests, windowMs, now, inflight, last,
                       winChecks, winNext, winDenied, solo, checked, allowedAt,
                       twin>>

\* setInterval(() => rateLimiter.cleanup(), 60000)
AppCleanup ==
    /\ store' = cleanup(store, now)
    /\ UNCHANGED <<maxRequests, windowMs, now, inflight, last,
                   winChecks, winNext, winDenied, solo, aux>>

\* The middleware runs on a request and the instant of its call of next() is
\* kept; instants more than windowMs ago are dropped, no interval that holds
\* the present reaches them.  (The limiter's observation variables are not
\* kept here.)
TimedRequest(ip) ==
    LET k == ClientKey(ip)
        r == middleware(store, k, now, maxRequests, windowMs)
    IN  /\ store' = r.store
        /\ allowedAt' =
              [j \in Keys |-> [t \in 0..MaxTime |->
                  IF t < now - windowMs THEN 0
                  ELSE allowedAt[j][t]
                       + (IF j = k /\ t = now THEN r.nextCalls ELSE 0)]]
        /\ UNCHANGED <<maxRequests, windowMs, now, inflight, last,
                       winChecks, winNext, winDenied, solo, checked, served,
                       twin>>

NextTimed ==
    \/ \E ip \in Ips : TimedRequest(ip)
    \/ AppCleanup
    \/ Tick

SpecTimed == Init /\ [][NextTimed]_vars

\* The middleware runs on a request, in this run and in the run without
\* cleanup.  (The limiter's observation variables are not kept here.)
TwinRequest(ip) ==
    LET k == ClientKey(ip)
        r == middleware(store, k, now, maxRequests, windowMs)
        p == middleware(twin.plain, k, now, maxRequests, windowMs)
    IN  /\ store' = r.store
        /\ twin' = [op |-> "check", key |-> k, at |-> now, pre |-> store,
                    nextCalls |-> r.nextCalls, plainPre |-> twin.plain,
                    plain |-> p.store, plainNext |-> p.nextCalls]
        /\ UNCHANGED <<maxRequests, windowMs, now, inflight, last,
                       winChecks, winNext, winDenied, solo, checked, served,
                       allowedAt>>

\* cleanup() runs in this run only.
TwinCleanup ==
    /\ store' = cleanup(store, now)
    /\ twin' = [op |-> "cleanup", key |-> "none", at |-> now, pre |-> store,
                nextCalls |-> 0, plainPre |-> twin.plain,
                plain |-> twin.plain, plainNext |-> 0]
    /\ UNCHANGED <<maxRequests, windowMs, now, inflight, last,
                   winChecks, winNext, winDenied, solo, checked, served,
                   allowedAt>>

NextTwin ==
    \/ \E ip \in Ips : TwinRequest(ip)
    \/ TwinCleanup
    \/ Tick

SpecTwin == Init /\ [][NextTwin]_vars

NextApp ==
    \/ \E req \in Requests : Dispatch(req)
    \/ AppCleanup
    \/ Tick

SpecApp == Init /\ [][NextApp]_vars

\* ------------------------------------------------------------- validators
\* Each validator is a function of the request alone: one input is drawn and
\* the validator is applied to it.
limiter == <<store, maxRequests, windowMs, now, inflight, last,
             winChecks, winNext, winDenied, solo>>

\* app.post('/api/analyze', validateFinancialQuery, ...)
ValidateQuestion(body) ==
    /\ checked = NoValidation
    /\ checked' = [fn |-> "validateFinancialQuery", input |-> body,
                   out |-> validateFinancialQuery(body, now), after |-> body]
    /\ UNCHANGED <<limiter, served, allowedAt, twin>>

\* app.get('/api/market/stock/:symbol', validateSymbol, ...)
ValidateSymbol(params) ==
    LET r == validateSymbol(params, now)
    IN  /\ checked = NoValidation
        /\ checked' = [fn |-> "validateSymbol", input |-> params,
                       out |-> r.out, after |-> r.params]
        /\ UNCHANGED <<limiter, served, allowedAt, twin>>

NextValidate ==
    \/ \E body \in Bodies : ValidateQuestion(body)
    \/ \E params \in Params : ValidateSymbol(params)

SpecValidate == Init /\ [][NextValidate]_vars

\* ------------------------------------------------------------------ claims
Allowed(c) == c.op = "check" /\ c.nextCalls > 0
Denied(c) == c.op = "check" /\ c.nextCalls = 0

OtherKeys(k) == Keys \ {k}

\* C1 (window saturation): among the consecutive checks for one key that
\* fall in the window of its entry, counted from the check that found no
\* live entry, every check up to the maxRequests-th calls next() and the
\* (maxRequests+1)-th does not, whatever checks for other keys come between.
C1_WindowSaturation ==
    last.op = "check" =>
        /\ (last.idx <= maxRequests => Allowed(last))
        /\ (last.idx = maxRequests + 1 => Denied(last))

C1_Witness ==
    /\ Denied(last)
    /\ maxRequests = MaxRequestsBound
    /\ last.idx = maxRequests + 1
    /\ \E j \in OtherKeys(last.key) : j \in DOMAIN store /\ store[j].count > 1

\* C2 (first-request admission): a check for a key that has no entry calls
\* next() and leaves the store as it was plus the entry
\* {count = 1, resetTime = now + windowMs} for that key.
C2_FirstRequestAdmission ==
    (last.op = "check" /\ last.key \notin DOMAIN last.pre) =>
        /\ Allowed(last)
        /\ store = PutEntry(last.pre, last.key,
                            [count |-> 1, resetTime |-> last.at + windowMs])

C2_Witness ==
    /\ last.op = "check"
    /\ last.key \notin DOMAIN last.pre
    /\ last.at > 0
    /\ \E j \in DOMAIN last.pre :
          last.pre[j].count >= maxRequests /\ last.at <= last.pre[j].resetTime

\* C3 as stated: once now >= resetTime, the instant now = resetTime
\* included, a check for a saturated key is Allowed and starts a new window.
C3_ResetAtOrAfterResetTime ==
    (/\ last.op = "check"
     /\ last.key \in DOMAIN last.pre
     /\ last.pre[last.key].count >= maxRequests
     /\ last.at >= last.pre[last.key].resetTime) =>
        /\ Allowed(last)
        /\ store[last.key] = [count |-> 1, resetTime |-> last.at + windowMs]

\* C3 (window reset, amended): once now > resetTime, a check for a saturated
\* key is Allowed and replaces the entry by
\* {count = 1, resetTime = now + windowMs}.
C3_ResetAfterResetTime ==
    (/\ last.op = "check"
     /\ last.key \in DOMAIN last.pre
     /\ last.pre[last.key].count >= maxRequests
     /\ last.at > last.pre[last.key].resetTime) =>
        /\ Allowed(last)
        /\ store[last.key] = [count |-> 1, resetTime |-> last.at + windowMs]

C3_Witness ==
    /\ last.op = "check"
    /\ last.key \in DOMAIN last.pre
    /\ maxRequests = MaxRequestsBound
    /\ last.pre[last.key].count >= maxRequests
    /\ last.at > last.pre[last.key].resetTime
    /\ Allowed(last)

\* C4 (strict expiry boundary): a check at exactly now = resetTime is an
\* ordinary in-window attempt (count + 1 and Allowed below maxRequests,
\* Denied otherwise) that keeps resetTime; a check replaces a stored entry's
\* window only when now > resetTime.
C4_StrictExpiryBoundary ==
    (last.op = "check" /\ last.key \in DOMAIN last.pre) =>
        LET e == last.pre[last.key]
        IN  /\ (last.at = e.resetTime /\ e.count < maxRequests) =>
                  /\ Allowed(last)
                  /\ store[last.key] = [count |-> e.count + 1,
                                        resetTime |-> e.resetTime]
            /\ (last.at = e.resetTime /\ e.count >= maxRequests) =>
                  /\ Denied(last)
                  /\ store[last.key] = e
            /\ (store[last.key].resetTime # e.resetTime) =>
                  last.at > e.resetTime

C4_Witness ==
    /\ last.op = "check"
    /\ last.key \in DOMAIN last.pre
    /\ last.at = last.pre[last.key].resetTime
    /\ last.pre[last.key].count < maxRequests
    /\ Allowed(last)

\* C5 (Denied does not mutate): after a Denied check the whole store is what
\* it was before the check, also for the second and later Denied checks of
\* a row.
C5_DeniedNoMutation ==
    Denied(last) => store = last.pre

C5_Witness ==
    /\ Denied(last)
    /\ last.idx >= maxRequests + 2
    /\ OtherKeys(last.key) \cap DOMAIN store # {}

\* C6 (store invariant): every stored entry has 1 <= count <= maxRequests.
C6_CountWithinBounds ==
    \A k \in DOMAIN store :
        store[k].count >= 1 /\ store[k].count <= maxRequests

C6_Witness ==
    \E k \in DOMAIN store :
        /\ maxRequests = MaxRequestsBound
        /\ store[k].count = maxRequests
        /\ now < store[k].resetTime
        /\ Denied(last)
        /\ last.key = k

\* C7 (independence across keys): a check for one key leaves every other
\* key's entry as it was, and each key's entry and each check's result are
\* those of the run in which only that key's checks happen.
C7_KeyIndependence ==
    /\ \A k \in Keys :
          /\ (k \in DOMAIN store) = (k \in DOMAIN solo[k])
          /\ k \in DOMAIN store => store[k] = solo[k][k]
    /\ last.op = "check" =>
          /\ last.nextCalls = last.soloNext
          /\ \A j \in OtherKeys(last.key) :
                /\ (j \in DOMAIN store) = (j \in DOMAIN last.pre)
                /\ j \in DOMAIN store => store[j] = last.pre[j]

C7_Witness ==
    /\ Allowed(last)
    /\ last.key \in DOMAIN last.pre
    /\ \E j \in OtherKeys(last.key) :
          /\ j \in DOMAIN store
          /\ store[j].count >= maxRequests
          /\ last.at <= store[j].resetTime

\* C8 (cleanup removes only expired entries): after cleanup() at time now
\* the store holds exactly the entries whose resetTime had not passed
\* (now <= resetTime), each unchanged.
C8_CleanupRemovesExpiredOnly ==
    last.op = "cleanup" =>
        /\ DOMAIN store = {k \in DOMAIN last.pre : last.at <= last.pre[k].resetTime}
        /\ \A k \in DOMAIN store : store[k] = last.pre[k]
        /\ \A k \in DOMAIN store : ~(store[k].resetTime < last.at)

C8_Witness ==
    /\ last.op = "cleanup"
    /\ \E k \in DOMAIN last.pre : last.pre[k].resetTime < last.at
    /\ \E k \in DOMAIN last.pre : last.pre[k].resetTime = last.at
    /\ Cardinality(DOMAIN store) = 1

\* C9 (no over-admission under concurrency): of the requests for one key
\* handled within one window of its entry, in any order of arrival, handling,
\* cleanup and clock ticks, exactly min(handled, maxRequests) are Allowed and
\* the rest Denied: maxRequests + BurstExtra requests give maxRequests
\* Allowed and BurstExtra Denied.
C9_NoOverAdmission ==
    \A k \in Keys :
        InWindow(store, k, now) =>
            /\ winChecks[k] < BurstCap =>
                  /\ winNext[k] = Min(winChecks[k], maxRequests)
                  /\ winDenied[k] = winChecks[k] - winNext[k]
            /\ winChecks[k] = maxRequests + BurstExtra =>
                  /\ winNext[k] = maxRequests
                  /\ winDenied[k] = BurstExtra

C9_Witness ==
    \E k \in Keys :
        /\ InWindow(store, k, now)
        /\ maxRequests = MaxRequestsBound
        /\ winChecks[k] = maxRequests + BurstExtra
        /\ winDenied[k] = BurstExtra
        /\ inflight[k] = 0
        /\ last.op = "cleanup"

\* C10 (one outcome per invocation): a check either calls next() once and
\* sends nothing, or sends one response {429, success = false,
\* error = "Too many requests", timestamp} and does not call next(); the
\* latter exactly when the key's live entry has count >= maxRequests.
C10_ExactlyOneOutcome ==
    last.op = "check" =>
        LET full == /\ InWindow(last.pre, last.key, last.at)
                    /\ last.pre[last.key].count >= maxRequests
        IN  /\ full =>
                  /\ last.nextCalls = 0
                  /\ Len(last.responses) = 1
                  /\ last.responses[1].status = 429
                  /\ last.responses[1].success = FALSE
                  /\ last.responses[1].error = "Too many requests"
                  /\ "timestamp" \in DOMAIN last.responses[1]
            /\ ~full =>
                  /\ last.nextCalls = 1
                  /\ last.responses = << >>

C10_Witness ==
    /\ last.op = "check"
    /\ last.nextCalls = 0
    /\ Len(last.responses) = 1
    /\ last.responses[1].status = 429

\* The single response of an outcome that rejects with status 400 and msg.
Rejects(out, msg) ==
    /\ out.nextCalls = 0
    /\ Len(out.responses) = 1
    /\ out.responses[1].status = 400
    /\ out.responses[1].success = FALSE
    /\ out.responses[1].error = msg

Passes(out) == out.nextCalls = 1 /\ out.responses = << >>

MissingMsg == "Question is required"
WrongTypeMsg == "Question must be a string"
EmptyMsg == "Question cannot be empty"
TooLongMsg == "Question is too long (max 1000 characters)"

QuestionPresent(body) == "question" \in DOMAIN body
IsText(v) == v.type = "string"

\* C11 (validator precedence), as stated: the result is the first match of
\* missing (field absent), wrong-type (present, not text), empty (text of
\* trimmed length 0), too-long (text longer than 1000), each with status
\* 400, and Pass (next() once, no response) when none applies.
C11_ValidatorPrecedence ==
    checked.fn = "validateFinancialQuery" =>
        LET body == checked.input
            q    == Field(body, "question")
        IN  IF ~QuestionPresent(body) THEN Rejects(checked.out, MissingMsg)
            ELSE IF ~IsText(q) THEN Rejects(checked.out, WrongTypeMsg)
            ELSE IF Length(Trim(q.runs)) = 0 THEN Rejects(checked.out, EmptyMsg)
            ELSE IF Length(q.runs) > MaxQuestionLength
            THEN Rejects(checked.out, TooLongMsg)
            ELSE Passes(checked.out)

\* C12 (present is never missing), as stated: a present question field is
\* never reported as missing; a present value that is not text is rejected
\* as wrong-type and a text of trimmed length 0 as empty.
C12_PresentNeverMissing ==
    (checked.fn = "validateFinancialQuery" /\ QuestionPresent(checked.input)) =>
        LET q == checked.input["question"]
        IN  /\ ~Rejects(checked.out, MissingMsg)
            /\ ~IsText(q) => Rejects(checked.out, WrongTypeMsg)
            /\ (IsText(q) /\ Length(Trim(q.runs)) = 0) =>
                  Rejects(checked.out, EmptyMsg)

\* C13 (symbol format): validateSymbol rejects with 400 "Symbol is required"
\* when the symbol is absent or empty, with 400 "Invalid symbol format" when
\* it has a character outside [A-Za-z0-9-], and otherwise calls next() once;
\* req.params is left as it was.
C13_SymbolFormat ==
    checked.fn = "validateSymbol" =>
        LET sym     == Field(checked.input, "symbol")
            missing == sym.type = "undefined" \/ Length(sym.runs) = 0
            badChar == \E i \in 1..Len(sym.runs) : sym.runs[i].ch \notin SymbolClass
        IN  /\ missing => Rejects(checked.out, "Symbol is required")
            /\ (~missing /\ badChar) =>
                  Rejects(checked.out, "Invalid symbol format")
            /\ (~missing /\ ~badChar) => Passes(checked.out)
            /\ checked.after = checked.input

C13_Witness ==
    /\ checked.fn = "validateSymbol"
    /\ Passes(checked.out)
    /\ "symbol" \in DOMAIN checked.after
    /\ \E i, j \in 1..Len(checked.after["symbol"].runs) :
          /\ checked.after["symbol"].runs[i].ch \in Upper
          /\ checked.after["symbol"].runs[j].ch \in Lower

\* C14 (documented limit), as stated: with the limiter the server constructs,
\* the 101st request of one IP within a 15-minute window is answered 429.
C14_DocumentedLimit ==
    /\ windowMs = DocumentedWindowMs
    /\ (last.op = "check" /\ last.idx = DocumentedLimit + 1) =>
          /\ Denied(last)
          /\ Len(last.responses) = 1
          /\ last.responses[1].status = 429

RouteHandlers == {"health", "analyzeQuery", "getMarketData", "getNews", "notFound"}
Controllers == {"analyzeQuery", "getMarketData", "getNews"}

Ran(tr, stage) == \E i \in 1..Len(tr) : tr[i] = stage
RanBefore(tr, a, b) == \E i, j \in 1..Len(tr) : i < j /\ tr[i] = a /\ tr[j] = b

\* The key of the request has a live entry with count >= maxRequests.
Throttled(c) ==
    /\ InWindow(c.pre, ClientKey(c.req.ip), c.at)
    /\ c.pre[ClientKey(c.req.ip)].count >= maxRequests

\* C15 (pipeline ordering): for every dispatched request the rate limiter
\* runs before any route handler and handlers run only if it allowed the
\* request; analyzeQuery and getMarketData run only on their routes, after
\* their validator, and only if it passed; a request the limiter denies or a
\* validator rejects reaches no controller.
C15_PipelineOrdering ==
    served.req.method # "none" =>
        LET tr   == served.trace
            name == Match(served.req.method, served.req.path)
            qOk  == Passes(validateFinancialQuery(served.req.body, served.at))
            yOk  == Passes(validateSymbol(served.req.params, served.at).out)
        IN  /\ \A h \in RouteHandlers :
                  Ran(tr, h) => RanBefore(tr, "rateLimiter", h) /\ ~Throttled(served)
            /\ Ran(tr, "analyzeQuery") =>
                  /\ name = "analyze"
                  /\ RanBefore(tr, "validateFinancialQuery", "analyzeQuery")
                  /\ qOk
            /\ Ran(tr, "getMarketData") =>
                  /\ name \in {"stock", "crypto"}
                  /\ RanBefore(tr, "validateSymbol", "getMarketData")
                  /\ yOk
            /\ Ran(tr, "getNews") => name = "news"
            /\ (\/ Throttled(served)
                \/ name = "analyze" /\ ~qOk
                \/ name \in {"stock", "crypto"} /\ ~yOk) =>
                  \A c \in Controllers : ~Ran(tr, c)

C15_Witness ==
    /\ Throttled(served)
    /\ Match(served.req.method, served.req.path) = "crypto"
    /\ Passes(validateSymbol(served.req.params, served.at).out)
    /\ Ran(served.trace, "rateLimiter")
    /\ ~Ran(served.trace, "getMarketData")
    /\ Len(served.responses) = 1
    /\ served.responses[1].status = 429

\* C16 (no permanent denial): when the clock keeps advancing and the client
\* keeps sending, a Denied client whose window ends within the clock's range
\* is eventually Allowed; a Denied check leaves the entry's resetTime as it
\* was.
C16_NoPermanentDenial ==
    /\ \A k \in Keys :
          (/\ Denied(last)
           /\ last.key = k
           /\ k \in DOMAIN store
           /\ store[k].resetTime < MaxTime)
              ~> (Allowed(last) /\ last.key = k)
    /\ [](Denied(last) =>
            /\ last.key \in DOMAIN store
            /\ store[last.key].resetTime = last.pre[last.key].resetTime)

C16_Witness ==
    /\ Denied(last)
    /\ last.idx >= maxRequests + 2
    /\ maxRequests = MaxRequestsBound
    /\ store[last.key].resetTime < MaxTime
    /\ now = store[last.key].resetTime

\* C17 (eventual reclamation): with the clock advancing and the cleanup timer
\* firing, every entry whose resetTime has passed is eventually deleted or
\* replaced by a new window of its key, and once requests have stopped the
\* store becomes empty and stays empty.
C17_EventualReclamation ==
    /\ \A k \in Keys :
          (k \in DOMAIN store /\ now > store[k].resetTime)
              ~> (k \notin DOMAIN store \/ now <= store[k].resetTime)
    /\ <>[](store = EmptyStore)

C17_Witness ==
    /\ last.op = "cleanup"
    /\ store = EmptyStore
    /\ Cardinality(DOMAIN last.pre) = 2
    /\ \A k \in DOMAIN last.pre : last.at > last.pre[k].resetTime

\* The checks for k that called next() at the instants from..to.
RECURSIVE AllowedBetween(_, _, _)
AllowedBetween(k, from, to) ==
    IF from > to THEN 0
    ELSE (IF from \in 0..MaxTime THEN allowedAt[k][from] ELSE 0)
         + AllowedBetween(k, from + 1, to)

\* C18 as stated: in every interval of length windowMs, wherever it starts
\* (the instants s .. s + windowMs - 1), at most maxRequests checks of one
\* key are Allowed.
C18_SlidingWindowBound ==
    \A k \in Keys : \A s \in 0..MaxTime :
        AllowedBetween(k, s, s + windowMs - 1) <= maxRequests

\* C18 (rate bound, amended): in every interval of length windowMs,
\* wherever it starts and with both ends counted (the instants
\* s .. s + windowMs), at most 2 * maxRequests - 1 checks of one key are
\* Allowed.
C18_TwoWindowBound ==
    \A k \in Keys : \A s \in 0..MaxTime :
        AllowedBetween(k, s, s + windowMs) <= 2 * maxRequests - 1

C18_Witness ==
    \E k \in Keys : \E s \in 0..MaxTime :
        /\ maxRequests = MaxRequestsBound
        /\ windowMs > 1
        /\ AllowedBetween(k, s, s + windowMs - 1) = 2 * maxRequests - 1
        /\ InWindow(store, k, now)
        /\ store[k].count = maxRequests

\* C19 (cleanup is transparent): each check has the result it has in the
\* run without cleanup() calls; at every instant both runs hold the same
\* live entries; cleanup deletes an entry exactly when now > resetTime, the
\* condition under which a check at that instant starts a new window, so it
\* never deletes an entry such a check would increment.
C19_CleanupTransparent ==
    /\ twin.op = "check" => twin.nextCalls = twin.plainNext
    /\ \A k \in Keys :
          /\ InWindow(store, k, now) = InWindow(twin.plain, k, now)
          /\ InWindow(store, k, now) => store[k] = twin.plain[k]
    /\ twin.op = "cleanup" =>
          \A k \in DOMAIN twin.pre :
              /\ (k \notin DOMAIN store) = (twin.at > twin.pre[k].resetTime)
              /\ (k \notin DOMAIN store) => ~InWindow(twin.pre, k, twin.at)

C19_Witness ==
    /\ twin.op = "check"
    /\ twin.key \notin DOMAIN twin.pre
    /\ twin.key \in DOMAIN twin.plainPre
    /\ twin.plainPre[twin.key].count >= maxRequests
    /\ twin.nextCalls = 1
    /\ \E j \in OtherKeys(twin.key) :
          j \in DOMAIN store /\ twin.at = store[j].resetTime

=============================================================================
